---- MODULE Spec2Model ----
(***************************************************************************)
(* whisper-mate: the transcription request pipeline.                       *)
(*                                                                         *)
(*   - the rate-limited Whisper client (services/whisperService.ts,        *)
(*     kept in src/unnamed/part_006): waitForRateLimit and transcribeAudio *)
(*   - the result coordinator (hooks/useTranscriptionState.ts):            *)
(*     saveAndCopyTranscription                                            *)
(*                                                                         *)
(* Time is in milliseconds.  A suspended call (timer or network attempt)   *)
(* carries the time at which it resumes; the clock `now` jumps to it.      *)
(***************************************************************************)
EXTENDS Integers, Sequences, FiniteSets, TLC

\* ------------------------------------------------------------------------
\* Program constants (whisperService.ts)
\* ------------------------------------------------------------------------
\* variant: one attempt too many
MAX_RETRIES_Plus1 == 3 + 1

MAX_RETRIES == 3

RETRY_DELAY == 1000

MIN_REQUEST_INTERVAL == 200

\* ------------------------------------------------------------------------
\* Bounds of the model
\* ------------------------------------------------------------------------
\* value of Date.now() when the module is loaded (lastRequestTime is 0, far
\* in the past of any real clock reading)
Epoch == 1000

\* number of transcribeAudio calls one behaviour issues
MaxCalls == 2

\* network round-trip time of one attempt (ms): shorter than MIN_REQUEST_INTERVAL
Latencies == {100}

\* idle time between the end of one call and the start of the next (ms)
Gaps == {0, 100, 300}

\* the callers of the sequential specification (a single logical caller)
Callers == {1}

\* the activations of transcribeAudio that can be suspended at once
AllCallers == {1, 2}

\* number of saveAndCopyTranscription invocations one behaviour makes
MaxInvocations == 2

\* activations of saveAndCopyTranscription that can be suspended at once
Slots == {1, 2}

Undefined == <<"undefined">>

\* the (text, audioDuration, language) arguments of saveAndCopyTranscription:
\* texts and languages are character sequences, the language is optional
Triples ==
  {<< <<"h", "i">>, 1, Undefined >>,
   << <<"h", "i">>, 1, <<>> >>,
   << <<"h", "i">>, 12, <<"e", "n">> >>,
   << <<"o", "k">>, 1, <<"e", "n">> >>}

\* ------------------------------------------------------------------------
\* Values
\* ------------------------------------------------------------------------
NoTime == -1

NoStatus == 0

NoHeader == <<"absent">>

\* retry-after header values, as character sequences
RetryAfterHeaders == {NoHeader, <<>>, <<"0">>, <<"2">>, <<"x">>}

ApiKeys == {"", "sk-valid"}

Bodies == {[text |-> "hello world", language |-> "en"],
           [text |-> "hi", language |-> "undefined"]}

HttpStatuses == {200, 400, 401, 413, 429, 500}

\* what one axios.post attempt settles with: an HTTP response, an error with
\* error.request only (transport failure, timeout), or an error with neither
Responses ==
  {[type |-> "http", status |-> s, retryAfter |-> NoHeader] : s \in HttpStatuses}
  \cup {[type |-> "http", status |-> 429, retryAfter |-> h] : h \in RetryAfterHeaders}
  \cup {[type |-> "noresp", status |-> NoStatus, retryAfter |-> NoHeader],
        [type |-> "other", status |-> NoStatus, retryAfter |-> NoHeader]}

NoBody == [text |-> "", language |-> ""]

NoResp == [type |-> "none", status |-> NoStatus, retryAfter |-> NoHeader]

NoResult == [state |-> "pending", text |-> "", language |-> "", code |-> "", status |-> NoStatus]

\* variant: the language of the body is not copied into the result
Success_TextOnly(body) ==
  [state |-> "returned", text |-> body.text, language |-> "undefined",
   code |-> "", status |-> NoStatus]

Success(body) ==
  [state |-> "returned", text |-> body.text, language |-> body.language,
   code |-> "", status |-> NoStatus]

\* a thrown TranscriptionError { code, status }
Failure(code, status) ==
  [state |-> "thrown", text |-> "", language |-> "", code |-> code, status |-> status]

\* `throw new Error(message)`: an Error object, which has no code and no status
PlainError == Failure("none", NoStatus)

\* ------------------------------------------------------------------------
\* parseInt(s, 10) on a header value
\* ------------------------------------------------------------------------
Digits == {"0", "1", "2", "3", "4", "5", "6", "7", "8", "9"}

DigitVal(c) ==
  CASE c = "0" -> 0 [] c = "1" -> 1 [] c = "2" -> 2 [] c = "3" -> 3 [] c = "4" -> 4
    [] c = "5" -> 5 [] c = "6" -> 6 [] c = "7" -> 7 [] c = "8" -> 8 [] OTHER -> 9

NaN == -999999

DigitChars == <<"0", "1", "2", "3", "4", "5", "6", "7", "8", "9">>

RECURSIVE ParseDigits(_, _, _)
\* reads the leading digits of s from position i on, acc is the value so far
ParseDigits(s, i, acc) ==
  IF i > Len(s) \/ s[i] \notin Digits THEN acc
  ELSE ParseDigits(s, i + 1, acc * 10 + DigitVal(s[i]))

\* parseInt: the leading decimal digits, NaN when there is none
ParseInt(s) ==
  IF Len(s) = 0 \/ s[1] \notin Digits THEN NaN ELSE ParseDigits(s, 1, 0)

\* setTimeout(resolve, d): a NaN or negative delay is a delay of 0
TimerDelay(d) == IF d = NaN \/ d < 0 THEN 0 ELSE d

\* JavaScript truthiness of headers['retry-after']: absent (undefined) and the
\* empty string are falsy
Truthy(h) == h # NoHeader /\ Len(h) > 0

\* parseInt(retryAfter, 10) * 1000
TimesThousand(n) == IF n = NaN THEN NaN ELSE n * 1000

\* ------------------------------------------------------------------------
\* State
\* ------------------------------------------------------------------------
VARIABLES
  now,              \* Date.now()
  lastRequestTime,  \* module variable of whisperService.ts
  call,             \* per caller: the activation of transcribeAudio
  prevDispatch,     \* time of the network dispatch before the last one
  lastDispatch,     \* time of the last network dispatch (axios.post)
  callsMade         \* number of transcribeAudio calls issued so far

clientVars == <<now, lastRequestTime, call, prevDispatch, lastDispatch, callsMade>>

VARIABLES
  mounted,              \* the hook instance exists (useRef has run)
  processingRef,        \* processingRef.current of the hook instance
  settings,             \* settings.autoSave, settings.autoCopyToClipboard
  electron,             \* isElectron()
  configured,           \* isSupabaseConfigured()
  inv,                  \* per slot: the activation of saveAndCopyTranscription
  recentTranscriptions, \* state.recentTranscriptions of the app reducer
  saveCalls,            \* per (text, duration, language): calls of saveTranscription
  copyCalls,            \* per (text, duration, language): calls of copy
  invoked,              \* number of saveAndCopyTranscription invocations so far
  currentTranscription, \* AppState.currentTranscription, the text shown to the user
  cycle,                \* number of recording cycles begun so far
  keyCycles             \* <<key, cycle>>: the cycle in which each key was recorded

coordVars ==
  <<mounted, processingRef, settings, electron, configured, inv, recentTranscriptions,
    saveCalls, copyCalls, invoked, currentTranscription, cycle, keyCycles>>

VARIABLES
  loaded,           \* supabaseClient.ts has been evaluated
  supabaseUrl,      \* import.meta.env.VITE_SUPABASE_URL ("" when unset)
  supabaseAnonKey,  \* import.meta.env.VITE_SUPABASE_ANON_KEY ("" when unset)
  table,            \* the rows of the backend table 'transcriptions', oldest first
  nextId,           \* the id the backend gives the next inserted row
  backendRequests,  \* number of requests sent to the backend so far
  op,               \* the last operation of transcriptionService.ts
  opsMade           \* number of operations called so far

storeVars ==
  <<loaded, supabaseUrl, supabaseAnonKey, table, nextId, backendRequests, op, opsMade>>

VARIABLES
  isRecording,      \* AppState.isRecording
  isTranscribing,   \* AppState.isTranscribing
  added             \* number of ADD_RECENT_TRANSCRIPTION actions dispatched directly

flagVars == <<isRecording, isTranscribing, added>>

VARIABLES
  keysDown,         \* number of keydown events dispatched so far
  lastKey           \* the last keydown event and what its listeners did

keyVars == <<keysDown, lastKey>>

VARIABLES
  pageMounted,      \* HistoryPage is mounted
  transcriptions,   \* HistoryPage state: the displayed list
  isLoading,        \* HistoryPage state
  searchQuery,      \* HistoryPage state: the text of the search field
  inflight,         \* the list and search requests that have not settled
  issued,           \* number of list and search requests issued so far
  latest            \* the request issued last, and how it settled

historyVars ==
  <<pageMounted, transcriptions, isLoading, searchQuery, inflight, issued, latest>>

VARIABLES
  recorderIsRecording, \* useAudioRecorder state isRecording
  mediaRecorderRef,    \* mediaRecorderRef.current: a recorder, or 0 for null
  timerRef,            \* timerRef.current: an interval timer, or 0 for null
  streamRef,           \* streamRef.current: a stream, or 0 for null
  pendingStarts,       \* activations of startRecording suspended at getUserMedia
  activeRecorders,     \* the MediaRecorders that are recording
  activeTimers,        \* the interval timers that have not been cleared
  activeStreams,       \* the streams whose tracks have not been stopped
  starts,              \* number of startRecording calls so far
  lastRecorderOp       \* the function of the hook that ran last

recorderVars ==
  <<recorderIsRecording, mediaRecorderRef, timerRef, streamRef, pendingStarts,
    activeRecorders, activeTimers, activeStreams, starts, lastRecorderOp>>

\* the state of the hooks and pages outside the app state
pageVars == <<keyVars, historyVars, recorderVars>>

\* the state outside the client, the coordinator's hook and the storage service
uiVars == <<flagVars, pageVars>>

vars ==
  <<now, lastRequestTime, call, prevDispatch, lastDispatch, callsMade,
    mounted, processingRef, settings, electron, configured, inv,
    recentTranscriptions, saveCalls, copyCalls, invoked, currentTranscription, cycle, keyCycles,
    loaded, supabaseUrl, supabaseAnonKey, table, nextId, backendRequests, op, opsMade,
    uiVars>>

\* pc: "idle"     no activation
\*     "pacing"   suspended in waitForRateLimit's setTimeout
\*     "inflight" suspended in axios.post
\*     "backoff"  suspended in a retry setTimeout inside the catch block
\*     "done"     returned or threw (result)
\* attempt, apiKey and result are the locals of transcribeAudio; the other
\* fields record what happened to the activation: netCalls the number of
\* axios.post calls, resps what each settled with, lastResp/respTime the last
\* of them, sentAt/prevSentAt the times of its last two dispatches,
\* pacingDelay the delay waitForRateLimit took, sleeps the number of retry
\* timers started and lastSleep the delay of the last one, lastBody the body
\* of the 2xx response, startedAt the time of the call, wroteAt the time at
\* which the activation assigned lastRequestTime, firstSentAt the time of its
\* first dispatch
IdleCall ==
  [pc |-> "idle", apiKey |-> "", attempt |-> 0, wake |-> NoTime, netCalls |-> 0,
   lastResp |-> NoResp, respTime |-> NoTime, pacingDelay |-> 0, sleeps |-> 0,
   resps |-> <<>>, sentAt |-> NoTime, prevSentAt |-> NoTime, result |-> NoResult,
   lastSleep |-> NoTime, lastBody |-> NoBody, startedAt |-> NoTime,
   wroteAt |-> NoTime, firstSentAt |-> NoTime]

ClientInit ==
  /\ now = Epoch
  /\ lastRequestTime = 0
  /\ call = [c \in AllCallers |-> IdleCall]
  /\ prevDispatch = NoTime
  /\ lastDispatch = NoTime
  /\ callsMade = 0

\* ------------------------------------------------------------------------
\* The result coordinator: values
\* ------------------------------------------------------------------------
RECURSIVE NumStr(_)
\* String(n) of a non-negative integer
NumStr(n) ==
  IF n < 10 THEN <<DigitChars[n + 1]>>
  ELSE NumStr(n \div 10) \o <<DigitChars[(n % 10) + 1]>>

\* `${text}_${audioDuration}_${language || ''}`
TextKey(text, audioDuration, language) ==
  text \o <<"_">> \o NumStr(audioDuration) \o <<"_">>
       \o (IF language = Undefined THEN <<>> ELSE language)

NoRecord == [id |-> 0, text |-> <<>>, audio_duration |-> 0, language |-> Undefined]

\* pc: "free"     no activation
\*     "saving"   suspended in `await saveTranscription(...)`
\*     "copying"  suspended in `await copy(text)`
\*     "resolved" the promise resolved with ret
\*     "rejected" the promise rejected
\* autoSave and autoCopy are the settings the callback closed over; skipped
\* tells that the activation returned at the duplicate check, saves and
\* copies count its calls of saveTranscription and copy, saveFailed tells that
\* saveTranscription rejected, copyResult is what copy returned, cycle is the
\* recording cycle in which it was invoked, saveSettled tells that its call
\* of saveTranscription has resolved or rejected
FreeInv ==
  [pc |-> "free", text |-> <<>>, audioDuration |-> 0, language |-> Undefined,
   autoSave |-> FALSE, autoCopy |-> FALSE, savedTranscription |-> NoRecord,
   skipped |-> FALSE, saveFailed |-> FALSE, ret |-> NoRecord,
   saves |-> 0, copies |-> 0, copyResult |-> "none", cycle |-> 0,
   saveSettled |-> FALSE]

\* defaultSettings
DefaultSettings == [autoSave |-> TRUE, autoCopyToClipboard |-> FALSE]

\* before the component that uses the hook is mounted
CoordInit ==
  /\ mounted = FALSE
  /\ processingRef = {}
  /\ settings = DefaultSettings
  /\ electron = FALSE
  /\ configured = FALSE
  /\ inv = [i \in Slots |-> FreeInv]
  /\ recentTranscriptions = <<>>
  /\ saveCalls = [t \in Triples |-> 0]
  /\ copyCalls = [t \in Triples |-> 0]
  /\ invoked = 0
  /\ currentTranscription = <<>>
  /\ cycle = 0
  /\ keyCycles = {}

\* ------------------------------------------------------------------------
\* The storage service: values
\* ------------------------------------------------------------------------
PlaceholderUrl == "https://placeholder.supabase.co"

\* the environment values; an unset variable is undefined, falsy like ""
EnvUrls == {"", PlaceholderUrl, "https://whisper.supabase.co"}

EnvKeys == {"", "anon-key"}

\* the results an operation resolves with
NullResult == [kind |-> "null", rows |-> <<>>]

VoidResult == [kind |-> "void", rows |-> <<>>]

RowResult(row) == [kind |-> "row", rows |-> <<row>>]

RowsResult(rows) == [kind |-> "rows", rows |-> rows]

ErrorResult == [kind |-> "error", rows |-> <<>>]

NoOpResult == [kind |-> "none", rows |-> <<>>]

NoArg == [text |-> <<>>, audioDuration |-> 0, language |-> Undefined, id |-> 0]

\* pc: "idle" none called yet, "awaiting" suspended at the backend request,
\*     "returned" resolved with result, "thrown" rejected
NoOp == [name |-> "none", pc |-> "idle", arg |-> NoArg, result |-> NoOpResult]

StoreInit ==
  /\ loaded = FALSE
  /\ supabaseUrl = ""
  /\ supabaseAnonKey = ""
  /\ table = <<>>
  /\ nextId = 1
  /\ backendRequests = 0
  /\ op = NoOp
  /\ opsMade = 0

\* initialState of the app reducer (the fields the coordinator does not hold)
FlagInit ==
  /\ isRecording = FALSE
  /\ isTranscribing = FALSE
  /\ added = 0

\* ------------------------------------------------------------------------
\* Keyboard shortcuts: values
\* ------------------------------------------------------------------------
\* settings.shortcuts[name].key of defaultSettings, as split('+') cuts it
DefaultShortcuts ==
  [startStopRecording |-> <<"Ctrl", "Shift", "R">>,
   copyText |-> <<"Ctrl", "Shift", "C">>,
   saveTranscription |-> <<"Ctrl", "Shift", "S">>]

ShortcutNames == {"startStopRecording", "copyText", "saveTranscription"}

\* a KeyboardEvent: key, the modifier flags and the tag of its target
KeyEvents ==
  [key : {"r", "C", "s", "x", "Control"}, ctrlKey : BOOLEAN, shiftKey : BOOLEAN,
   altKey : BOOLEAN, metaKey : {FALSE}, target : {"BODY", "INPUT"}]

\* what the handler finds when it runs: the callbacks its owner passed,
\* callbacks.currentTranscription and the text of the DOM element
KeyEnvs ==
  [callbacks : {ShortcutNames, {}},
   textFromCallback : {"", "hi"}, textFromDOM : {"", "dom"}]

NoKeyEvent ==
  [key |-> "", ctrlKey |-> FALSE, shiftKey |-> FALSE, altKey |-> FALSE,
   metaKey |-> FALSE, target |-> "BODY"]

NoKeyEnv == [callbacks |-> {}, textFromCallback |-> "", textFromDOM |-> ""]

\* what one run of handleKeyDown did: the callbacks it invoked, and whether it
\* stopped the propagation of the event
Quiet ==
  [startStopRecording |-> 0, copyText |-> 0, saveTranscription |-> 0,
   stopped |-> FALSE, prevented |-> FALSE]

KeyInit ==
  /\ keysDown = 0
  /\ lastKey = [event |-> NoKeyEvent, env |-> NoKeyEnv, listeners |-> 0, did |-> Quiet]

\* ------------------------------------------------------------------------
\* The history page: values
\* ------------------------------------------------------------------------
\* the rows of the backend while the page is open, oldest first
HistoryTable ==
  << [id |-> 1, text |-> <<"h", "i">>, audio_duration |-> 1, language |-> Undefined],
     [id |-> 2, text |-> <<"o", "k">>, audio_duration |-> 1, language |-> Undefined] >>

\* what the user types into the search field
SearchTexts == {<<>>, <<" ">>, <<"h">>, <<"k">>}

NoRequest == [id |-> 0, kind |-> "none", query |-> <<>>, outcome |-> "none"]

\* useState(...) of HistoryPage
HistoryInit ==
  /\ pageMounted = FALSE
  /\ transcriptions = <<>>
  /\ isLoading = TRUE
  /\ searchQuery = <<>>
  /\ inflight = {}
  /\ issued = 0
  /\ latest = NoRequest

\* useState(...) and useRef(...) of useAudioRecorder
RecorderInit ==
  /\ recorderIsRecording = FALSE
  /\ mediaRecorderRef = 0
  /\ timerRef = 0
  /\ streamRef = 0
  /\ pendingStarts = {}
  /\ activeRecorders = {}
  /\ activeTimers = {}
  /\ activeStreams = {}
  /\ starts = 0
  /\ lastRecorderOp = "none"

UiInit == FlagInit /\ KeyInit /\ HistoryInit /\ RecorderInit

Init == ClientInit /\ CoordInit /\ StoreInit /\ UiInit

\* ------------------------------------------------------------------------
\* transcribeAudio: the catch block
\* ------------------------------------------------------------------------
\* variant: the header value is taken as milliseconds (no `* 1000`)
WaitTime_Millis(resp, attempt) ==
  IF Truthy(resp.retryAfter)
    THEN ParseInt(resp.retryAfter)
    ELSE RETRY_DELAY * attempt

\* waitTime of the 429 branch
WaitTime(resp, attempt) ==
  IF Truthy(resp.retryAfter)
    THEN TimesThousand(ParseInt(resp.retryAfter))
    ELSE RETRY_DELAY * attempt

Throw(err) == [act |-> "throw", err |-> err, wait |-> 0]

Sleep(d) == [act |-> "sleep", err |-> NoResult, wait |-> d]

FallThrough == [act |-> "loop", err |-> NoResult, wait |-> 0]

\* variant: the exhaustion test is `attempt > MAX_RETRIES`, so the loop ends first
Exhausted_Late(resp, attempt) ==
  IF attempt > MAX_RETRIES
    THEN Throw(Failure("MAX_RETRIES_EXCEEDED", resp.status))
    ELSE FallThrough

\* variant: the status of the last response is not copied into the error
Exhausted_NoStatus(resp, attempt) ==
  IF attempt >= MAX_RETRIES
    THEN Throw(Failure("MAX_RETRIES_EXCEEDED", NoStatus))
    ELSE FallThrough

\* `if (attempt >= MAX_RETRIES) throw { code: 'MAX_RETRIES_EXCEEDED', status: error.response?.status }`
Exhausted(resp, attempt) ==
  IF attempt >= MAX_RETRIES
    THEN Throw(Failure("MAX_RETRIES_EXCEEDED", resp.status))
    ELSE FallThrough

\* variant: no special case for 401, which is then retried like a 500
Classify_Retry401(resp, attempt) ==
  IF resp.type = "http" THEN
    IF resp.status = 429 /\ attempt < MAX_RETRIES
      THEN Sleep(TimerDelay(WaitTime(resp, attempt)))
    ELSE IF resp.status = 413 \/ resp.status = 400
      THEN Throw(Failure("FILE_ERROR", resp.status))
    ELSE Exhausted(resp, attempt)
  ELSE IF resp.type = "noresp" THEN
    IF attempt < MAX_RETRIES
      THEN Sleep(TimerDelay(RETRY_DELAY * attempt))
      ELSE Throw(Failure("NETWORK_ERROR", NoStatus))
  ELSE Exhausted(resp, attempt)

\* variant: the 429 branch tests `attempt <= MAX_RETRIES`, so it sleeps after
\* the last attempt too
Classify_429SleepsOnLast(resp, attempt) ==
  IF resp.type = "http" THEN
    IF resp.status = 401 THEN Throw(Failure("INVALID_API_KEY", 401))
    ELSE IF resp.status = 429 /\ attempt <= MAX_RETRIES
      THEN Sleep(TimerDelay(WaitTime(resp, attempt)))
    ELSE IF resp.status = 413 \/ resp.status = 400
      THEN Throw(Failure("FILE_ERROR", resp.status))
    ELSE Exhausted(resp, attempt)
  ELSE IF resp.type = "noresp" THEN
    IF attempt < MAX_RETRIES
      THEN Sleep(TimerDelay(RETRY_DELAY * attempt))
      ELSE Throw(Failure("NETWORK_ERROR", NoStatus))
  ELSE Exhausted(resp, attempt)

\* variant: an error response that is not 401, 429, 400 or 413 backs off like
\* a network error before the retry
Classify_BackoffOnOtherStatus(resp, attempt) ==
  IF resp.type = "http" THEN
    IF resp.status = 401 THEN Throw(Failure("INVALID_API_KEY", 401))
    ELSE IF resp.status = 429 /\ attempt < MAX_RETRIES
      THEN Sleep(TimerDelay(WaitTime(resp, attempt)))
    ELSE IF resp.status = 413 \/ resp.status = 400
      THEN Throw(Failure("FILE_ERROR", resp.status))
    ELSE IF attempt < MAX_RETRIES
      THEN Sleep(TimerDelay(RETRY_DELAY * attempt))
    ELSE Exhausted(resp, attempt)
  ELSE IF resp.type = "noresp" THEN
    IF attempt < MAX_RETRIES
      THEN Sleep(TimerDelay(RETRY_DELAY * attempt))
      ELSE Throw(Failure("NETWORK_ERROR", NoStatus))
  ELSE Exhausted(resp, attempt)

\* variant: the 429 branch sleeps and continues without `if (attempt < MAX_RETRIES)`
Classify_429AlwaysSleeps(resp, attempt) ==
  IF resp.type = "http" THEN
    IF resp.status = 401 THEN Throw(Failure("INVALID_API_KEY", 401))
    ELSE IF resp.status = 429
      THEN Sleep(TimerDelay(WaitTime(resp, attempt)))
    ELSE IF resp.status = 413 \/ resp.status = 400
      THEN Throw(Failure("FILE_ERROR", resp.status))
    ELSE Exhausted(resp, attempt)
  ELSE IF resp.type = "noresp" THEN
    IF attempt < MAX_RETRIES
      THEN Sleep(TimerDelay(RETRY_DELAY * attempt))
      ELSE Throw(Failure("NETWORK_ERROR", NoStatus))
  ELSE Exhausted(resp, attempt)

\* variant: the network branch has no `else throw NETWORK_ERROR`
Classify_NoNetworkError(resp, attempt) ==
  IF resp.type = "http" THEN
    IF resp.status = 401 THEN Throw(Failure("INVALID_API_KEY", 401))
    ELSE IF resp.status = 429 /\ attempt < MAX_RETRIES
      THEN Sleep(TimerDelay(WaitTime(resp, attempt)))
    ELSE IF resp.status = 413 \/ resp.status = 400
      THEN Throw(Failure("FILE_ERROR", resp.status))
    ELSE Exhausted(resp, attempt)
  ELSE IF resp.type = "noresp" /\ attempt < MAX_RETRIES
    THEN Sleep(TimerDelay(RETRY_DELAY * attempt))
  ELSE Exhausted(resp, attempt)

\* variant: the file branch tests 413 only
Classify_Only413(resp, attempt) ==
  IF resp.type = "http" THEN
    IF resp.status = 401 THEN Throw(Failure("INVALID_API_KEY", 401))
    ELSE IF resp.status = 429 /\ attempt < MAX_RETRIES
      THEN Sleep(TimerDelay(WaitTime(resp, attempt)))
    ELSE IF resp.status = 413
      THEN Throw(Failure("FILE_ERROR", resp.status))
    ELSE Exhausted(resp, attempt)
  ELSE IF resp.type = "noresp" THEN
    IF attempt < MAX_RETRIES
      THEN Sleep(TimerDelay(RETRY_DELAY * attempt))
      ELSE Throw(Failure("NETWORK_ERROR", NoStatus))
  ELSE Exhausted(resp, attempt)

\* variant: the network branch sleeps RETRY_DELAY whatever the attempt
Classify_FlatBackoff(resp, attempt) ==
  IF resp.type = "http" THEN
    IF resp.status = 401 THEN Throw(Failure("INVALID_API_KEY", 401))
    ELSE IF resp.status = 429 /\ attempt < MAX_RETRIES
      THEN Sleep(TimerDelay(WaitTime(resp, attempt)))
    ELSE IF resp.status = 413 \/ resp.status = 400
      THEN Throw(Failure("FILE_ERROR", resp.status))
    ELSE Exhausted(resp, attempt)
  ELSE IF resp.type = "noresp" THEN
    IF attempt < MAX_RETRIES
      THEN Sleep(TimerDelay(RETRY_DELAY))
      ELSE Throw(Failure("NETWORK_ERROR", NoStatus))
  ELSE Exhausted(resp, attempt)

\* what the catch block does with the error of an attempt; attempt is the
\* counter after `attempt++`
Classify(resp, attempt) ==
  IF resp.type = "http" THEN
    IF resp.status = 401 THEN Throw(Failure("INVALID_API_KEY", 401))
    ELSE IF resp.status = 429 /\ attempt < MAX_RETRIES
      THEN Sleep(TimerDelay(WaitTime(resp, attempt)))
    ELSE IF resp.status = 413 \/ resp.status = 400
      THEN Throw(Failure("FILE_ERROR", resp.status))
    ELSE Exhausted(resp, attempt)
  ELSE IF resp.type = "noresp" THEN
    IF attempt < MAX_RETRIES
      THEN Sleep(TimerDelay(RETRY_DELAY * attempt))
      ELSE Throw(Failure("NETWORK_ERROR", NoStatus))
  ELSE Exhausted(resp, attempt)

\* variant: waitForRateLimit returns without assigning lastRequestTime
Stamp_Skip(old, t) == old

\* `lastRequestTime = Date.now()` at the end of waitForRateLimit
Stamp(old, t) == t

\* `while (attempt < MAX_RETRIES)`
LoopCond(attempt) == attempt < MAX_RETRIES

\* ------------------------------------------------------------------------
\* Actions of the client
\* ------------------------------------------------------------------------
\* axios.post is issued at time t by caller c whose record is rec
Dispatch(c, rec, t) ==
  \E lat \in Latencies :
    /\ call' = [call EXCEPT ![c] =
                  [rec EXCEPT !.pc = "inflight", !.wake = t + lat, !.netCalls = @ + 1,
                              !.prevSentAt = rec.sentAt, !.sentAt = t,
                              !.firstSentAt = IF rec.netCalls = 0 THEN t ELSE @]]
    /\ prevDispatch' = lastDispatch
    /\ lastDispatch' = t

\* top of the while loop at time t: another attempt, or the trailing
\* `throw { code: 'UNKNOWN_ERROR' }`
LoopTop(c, rec, t) ==
  IF LoopCond(rec.attempt)
    THEN Dispatch(c, rec, t)
    ELSE /\ call' = [call EXCEPT ![c] =
                       [rec EXCEPT !.pc = "done", !.wake = NoTime,
                                   !.result = Failure("UNKNOWN_ERROR", NoStatus)]]
         /\ UNCHANGED <<prevDispatch, lastDispatch>>

\* no activation is suspended: the single logical caller issues its calls
\* one after another
NoneActive == \A d \in Callers : call[d].pc \in {"idle", "done"}

\* variant: the catch block does not count the attempt
NextAttempt_Stuck(attempt) == attempt

\* `attempt++` at the top of the catch block
NextAttempt(attempt) == attempt + 1

\* variant: no test of the key before the pacing wait
KeyMissing_Never(key) == FALSE

\* `if (!apiKey)`: the empty string is the falsy key
KeyMissing(key) == key = ""

\* the event loop runs the timer or completion of activation c next: no other
\* suspended activation is due earlier
Earliest(c) ==
  \A d \in AllCallers : call[d].wake # NoTime => call[c].wake <= call[d].wake

\* the body of transcribeAudio(audioBlob, apiKey, language) up to its first
\* suspension, entered gap ms from now
StartCall(c, key, gap) ==
  /\ callsMade < MaxCalls
  /\ callsMade' = callsMade + 1
  /\ now' = now + gap
  /\ UNCHANGED <<coordVars, storeVars, uiVars>>
  /\ LET rec == [IdleCall EXCEPT !.apiKey = key, !.startedAt = now']
         timeElapsed == now' - lastRequestTime
     IN IF KeyMissing(key)
          THEN /\ call' = [call EXCEPT ![c] =
                             [rec EXCEPT !.pc = "done", !.result = PlainError]]
               /\ UNCHANGED <<lastRequestTime, prevDispatch, lastDispatch>>
        ELSE IF timeElapsed < MIN_REQUEST_INTERVAL
          THEN /\ call' = [call EXCEPT ![c] =
                             [rec EXCEPT !.pc = "pacing",
                                         !.wake = now' + (MIN_REQUEST_INTERVAL - timeElapsed),
                                         !.pacingDelay = MIN_REQUEST_INTERVAL - timeElapsed]]
               /\ UNCHANGED <<lastRequestTime, prevDispatch, lastDispatch>>
        ELSE /\ lastRequestTime' = Stamp(lastRequestTime, now')
             /\ LoopTop(c, [rec EXCEPT !.wroteAt = lastRequestTime'], now')

\* transcribeAudio called by the single logical caller
TranscribeAudio(c, key, gap) ==
  /\ NoneActive
  /\ StartCall(c, key, gap)

\* transcribeAudio called while other activations may be suspended: the call
\* is entered before any of them is due
TranscribeAudioOverlapping(c, key, gap) ==
  /\ call[c].pc \in {"idle", "done"}
  /\ \A d \in AllCallers : call[d].wake # NoTime => now + gap <= call[d].wake
  /\ StartCall(c, key, gap)

\* the timer of waitForRateLimit fires: lastRequestTime = Date.now(), then
\* the loop is entered
PacingDone(c) ==
  /\ call[c].pc = "pacing"
  /\ Earliest(c)
  /\ now' = call[c].wake
  /\ lastRequestTime' = Stamp(lastRequestTime, now')
  /\ LoopTop(c, [call[c] EXCEPT !.wake = NoTime, !.wroteAt = lastRequestTime'], now')
  /\ UNCHANGED callsMade
  /\ UNCHANGED <<coordVars, storeVars, uiVars>>

\* axios.post settles with resp; a 2xx returns, anything else enters the
\* catch block
Respond(c, resp, body) ==
  /\ call[c].pc = "inflight"
  /\ Earliest(c)
  /\ now' = call[c].wake
  /\ UNCHANGED <<lastRequestTime, callsMade>>
  /\ UNCHANGED <<coordVars, storeVars, uiVars>>
  /\ IF resp.type = "http" /\ resp.status = 200
       THEN /\ call' = [call EXCEPT ![c] =
                          [@ EXCEPT !.pc = "done", !.wake = NoTime, !.lastResp = resp,
                                    !.resps = Append(@, resp), !.lastBody = body,
                                    !.respTime = now', !.result = Success(body)]]
            /\ UNCHANGED <<prevDispatch, lastDispatch>>
       ELSE LET rec == [call[c] EXCEPT !.attempt = NextAttempt(@), !.lastResp = resp,
                                       !.resps = Append(@, resp),
                                       !.respTime = now', !.wake = NoTime]
                out == Classify(resp, rec.attempt)
            IN CASE out.act = "throw" ->
                      /\ call' = [call EXCEPT ![c] =
                                    [rec EXCEPT !.pc = "done", !.result = out.err]]
                      /\ UNCHANGED <<prevDispatch, lastDispatch>>
                 [] out.act = "sleep" ->
                      /\ call' = [call EXCEPT ![c] =
                                    [rec EXCEPT !.pc = "backoff", !.wake = now' + out.wait,
                                                !.sleeps = @ + 1, !.lastSleep = out.wait]]
                      /\ UNCHANGED <<prevDispatch, lastDispatch>>
                 [] OTHER -> LoopTop(c, rec, now')

\* the retry timer fires: `continue`
BackoffDone(c) ==
  /\ call[c].pc = "backoff"
  /\ Earliest(c)
  /\ now' = call[c].wake
  /\ LoopTop(c, [call[c] EXCEPT !.wake = NoTime], now')
  /\ UNCHANGED <<lastRequestTime, callsMade>>
  /\ UNCHANGED <<coordVars, storeVars, uiVars>>

Next ==
  \/ \E c \in Callers, key \in ApiKeys, gap \in Gaps : TranscribeAudio(c, key, gap)
  \/ \E c \in Callers : PacingDone(c)
  \/ \E c \in Callers, resp \in Responses, body \in Bodies : Respond(c, resp, body)
  \/ \E c \in Callers : BackoffDone(c)

Spec == Init /\ [][Next]_vars

\* every timer fires and every network attempt settles
Fairness ==
  \A c \in Callers :
    /\ WF_vars(PacingDone(c))
    /\ WF_vars(\E resp \in Responses, body \in Bodies : Respond(c, resp, body))
    /\ WF_vars(BackoffDone(c))

\* the single caller under that assumption
FairSpec == Spec /\ Fairness

\* the responses drawn when calls overlap
OverlapResponses ==
  {r \in Responses : r.retryAfter = NoHeader /\ (r.type = "noresp" \/ r.status \in {200, 500})}

\* the idle times drawn when calls overlap
OverlapGaps == {0, 100}

OverlapNext ==
  \/ \E c \in AllCallers, key \in ApiKeys, gap \in OverlapGaps :
       TranscribeAudioOverlapping(c, key, gap)
  \/ \E c \in AllCallers : PacingDone(c)
  \/ \E c \in AllCallers, resp \in OverlapResponses, body \in Bodies : Respond(c, resp, body)
  \/ \E c \in AllCallers : BackoffDone(c)

\* transcribeAudio with callers that do not wait for each other
OverlapSpec == Init /\ [][OverlapNext]_vars

\* ------------------------------------------------------------------------
\* The result coordinator: saveAndCopyTranscription
\* ------------------------------------------------------------------------
RECENT_LIMIT == 10

\* variant: the new record is put at the head and nothing is dropped
AddRecent_NoSlice(recent, payload) == <<payload>> \o recent

\* appReducer, ADD_RECENT_TRANSCRIPTION:
\* [action.payload, ...state.recentTranscriptions].slice(0, 10)
AddRecent(recent, payload) ==
  LET all == <<payload>> \o recent
  IN IF Len(all) > RECENT_LIMIT THEN SubSeq(all, 1, RECENT_LIMIT) ELSE all

\* variant: the duplicate check never finds the key
HasKey_Never(ref, key) == FALSE

\* processingRef.current.has(textKey)
HasKey(ref, key) == key \in ref

\* variant: the key is not recorded
MarkProcessing_Forget(ref, key) == ref

\* processingRef.current.add(textKey)
MarkProcessing(ref, key) == ref \cup {key}

\* useTranscriptionState() runs for the first time: useRef(new Set()), in a
\* runtime that is Electron or a browser and has Supabase configured or not
UseTranscriptionState(isElectron, isSupabaseConfigured) ==
  /\ ~mounted
  /\ mounted' = TRUE
  /\ processingRef' = {}
  /\ electron' = isElectron
  /\ configured' = isSupabaseConfigured
  /\ UNCHANGED <<settings, inv, recentTranscriptions, saveCalls, copyCalls, invoked,
                 currentTranscription, cycle, keyCycles>>
  /\ UNCHANGED <<clientVars, storeVars, uiVars>>

\* the least slot that holds no suspended activation
FreeSlot(i) ==
  /\ inv[i].pc \in {"free", "resolved", "rejected"}
  /\ \A j \in Slots : j < i => inv[j].pc \in {"saving", "copying"}

\* the promise of activation i resolves with its savedTranscription
Resolve(i, rec) ==
  inv' = [inv EXCEPT ![i] = [rec EXCEPT !.pc = "resolved", !.ret = rec.savedTranscription]]

\* variant: copy is called without looking at settings.autoCopyToClipboard
CopyStep_IgnoreSetting(i, rec) ==
  IF electron
    THEN /\ copyCalls' = [copyCalls EXCEPT ![<<rec.text, rec.audioDuration, rec.language>>] = @ + 1]
         /\ inv' = [inv EXCEPT ![i] = [rec EXCEPT !.pc = "copying", !.copies = @ + 1]]
    ELSE /\ Resolve(i, rec)
         /\ UNCHANGED copyCalls

\* variant: copy is called in every runtime, without `if (isElectron())`
CopyStep_AnyRuntime(i, rec) ==
  IF rec.autoCopy
    THEN /\ copyCalls' = [copyCalls EXCEPT ![<<rec.text, rec.audioDuration, rec.language>>] = @ + 1]
         /\ inv' = [inv EXCEPT ![i] = [rec EXCEPT !.pc = "copying", !.copies = @ + 1]]
    ELSE /\ Resolve(i, rec)
         /\ UNCHANGED copyCalls

\* the clipboard step of activation i whose record is rec, up to `await copy(text)`
CopyStep(i, rec) ==
  IF rec.autoCopy /\ electron
    THEN /\ copyCalls' = [copyCalls EXCEPT ![<<rec.text, rec.audioDuration, rec.language>>] = @ + 1]
         /\ inv' = [inv EXCEPT ![i] = [rec EXCEPT !.pc = "copying", !.copies = @ + 1]]
    ELSE /\ Resolve(i, rec)
         /\ UNCHANGED copyCalls

\* variant: saveTranscription is called without `await`
AwaitsSave_Not == FALSE

\* `await saveTranscription(...)`: the activation is suspended until the save
\* settles
AwaitsSave == TRUE

\* variant: no try/catch around `await saveTranscription(...)`
CatchesSaveError_Not == FALSE

\* the try/catch around `await saveTranscription(...)` catches the rejection
\* and logs it
CatchesSaveError == TRUE

\* saveAndCopyTranscription(text, audioDuration, language) up to its first
\* suspension
SaveAndCopyTranscription(i, text, audioDuration, language) ==
  /\ mounted
  /\ FreeSlot(i)
  /\ invoked < MaxInvocations
  /\ invoked' = invoked + 1
  /\ UNCHANGED <<mounted, settings, electron, configured, recentTranscriptions,
                 currentTranscription, cycle>>
  /\ UNCHANGED <<clientVars, storeVars, uiVars>>
  /\ LET textKey == TextKey(text, audioDuration, language)
         rec == [FreeInv EXCEPT !.text = text, !.audioDuration = audioDuration,
                                !.language = language,
                                !.autoSave = settings.autoSave,
                                !.autoCopy = settings.autoCopyToClipboard,
                                !.cycle = cycle]
     IN IF HasKey(processingRef, textKey)
          THEN /\ inv' = [inv EXCEPT ![i] = [rec EXCEPT !.pc = "resolved", !.skipped = TRUE]]
               /\ UNCHANGED <<processingRef, saveCalls, copyCalls, keyCycles>>
          ELSE /\ processingRef' = MarkProcessing(processingRef, textKey)
               /\ keyCycles' = keyCycles \cup {<<textKey, cycle>>}
               /\ IF rec.autoSave
                    THEN /\ saveCalls' = [saveCalls EXCEPT ![<<text, audioDuration, language>>] = @ + 1]
                         /\ IF AwaitsSave
                              THEN /\ inv' = [inv EXCEPT ![i] =
                                                [rec EXCEPT !.pc = "saving", !.saves = @ + 1]]
                                   /\ UNCHANGED copyCalls
                              ELSE CopyStep(i, [rec EXCEPT !.saves = @ + 1])
                    ELSE /\ CopyStep(i, rec)
                         /\ UNCHANGED saveCalls

\* what saveTranscription can settle with: null when Supabase is not
\* configured, otherwise the inserted row or a rejection
SaveOutcomes == IF configured THEN {"row", "reject"} ELSE {"null"}

\* `await saveTranscription(...)` settles; then the clipboard step
SaveSettles(i, outcome) ==
  /\ inv[i].pc = "saving"
  /\ outcome \in SaveOutcomes
  /\ UNCHANGED <<mounted, processingRef, settings, electron, configured, saveCalls, invoked,
                 currentTranscription, cycle, keyCycles>>
  /\ UNCHANGED <<clientVars, storeVars, uiVars>>
  /\ IF outcome = "row"
       THEN LET row == [id |-> invoked, text |-> inv[i].text,
                        audio_duration |-> inv[i].audioDuration,
                        language |-> inv[i].language]
            IN /\ recentTranscriptions' = AddRecent(recentTranscriptions, row)
               /\ CopyStep(i, [inv[i] EXCEPT !.savedTranscription = row, !.saveSettled = TRUE])
       ELSE IF outcome = "reject" /\ ~CatchesSaveError
         THEN /\ inv' = [inv EXCEPT ![i] = [@ EXCEPT !.pc = "rejected", !.saveFailed = TRUE,
                                                    !.saveSettled = TRUE]]
              /\ UNCHANGED <<recentTranscriptions, copyCalls>>
       ELSE /\ UNCHANGED recentTranscriptions
            /\ CopyStep(i, [inv[i] EXCEPT !.saveFailed = (outcome = "reject"),
                                          !.saveSettled = TRUE])

\* `await copy(text)` settles (copy catches its own errors and returns a
\* boolean, which is ignored)
CopySettles(i, success) ==
  /\ inv[i].pc = "copying"
  /\ Resolve(i, [inv[i] EXCEPT !.copyResult = IF success THEN "true" ELSE "false"])
  /\ UNCHANGED <<mounted, processingRef, settings, electron, configured,
                 recentTranscriptions, saveCalls, copyCalls, invoked, currentTranscription, cycle, keyCycles>>
  /\ UNCHANGED <<clientVars, storeVars, uiVars>>

\* updateSettings({ autoSave, autoCopyToClipboard })
UpdateSettings(s) ==
  /\ s # settings
  /\ settings' = s
  /\ UNCHANGED <<mounted, processingRef, electron, configured, inv,
                 recentTranscriptions, saveCalls, copyCalls, invoked, currentTranscription, cycle, keyCycles>>
  /\ UNCHANGED <<clientVars, storeVars, uiVars>>

CoordNext ==
  \/ \E e \in BOOLEAN, cfg \in BOOLEAN : UseTranscriptionState(e, cfg)
  \/ \E i \in Slots, t \in Triples : SaveAndCopyTranscription(i, t[1], t[2], t[3])
  \/ \E i \in Slots, outcome \in {"row", "reject", "null"} : SaveSettles(i, outcome)
  \/ \E i \in Slots, success \in BOOLEAN : CopySettles(i, success)
  \/ \E s \in [autoSave : BOOLEAN, autoCopyToClipboard : BOOLEAN] : UpdateSettings(s)

CoordSpec == Init /\ [][CoordNext]_vars

\* texts the caller shows to the user
ShownTexts == {<<"h", "i">>}

\* setCurrentTranscription(text): reducer case SET_CURRENT_TRANSCRIPTION
SetCurrentTranscription(text) ==
  /\ mounted
  /\ currentTranscription # text
  /\ currentTranscription' = text
  /\ UNCHANGED <<mounted, processingRef, settings, electron, configured, inv,
                 recentTranscriptions, saveCalls, copyCalls, invoked, cycle, keyCycles>>
  /\ UNCHANGED <<clientVars, storeVars, uiVars>>

\* clearCurrentTranscription(): reducer case CLEAR_CURRENT_TRANSCRIPTION
ClearCurrentTranscription ==
  /\ mounted
  /\ currentTranscription # <<>>
  /\ currentTranscription' = <<>>
  /\ UNCHANGED <<mounted, processingRef, settings, electron, configured, inv,
                 recentTranscriptions, saveCalls, copyCalls, invoked, cycle, keyCycles>>
  /\ UNCHANGED <<clientVars, storeVars, uiVars>>

PublishNext ==
  \/ CoordNext
  \/ \E text \in ShownTexts : SetCurrentTranscription(text)
  \/ ClearCurrentTranscription

\* the coordinator together with the text slot its caller writes
PublishSpec == Init /\ [][PublishNext]_vars

\* number of recording cycles one behaviour begins
MaxCycles == 2

\* setIsRecording(true): a new recording cycle begins.  It dispatches
\* SET_IS_RECORDING; processingRef is private to the hook and nothing clears it
SetIsRecording ==
  /\ mounted
  /\ cycle < MaxCycles
  /\ cycle' = cycle + 1
  /\ isRecording' = TRUE
  /\ UNCHANGED <<mounted, processingRef, settings, electron, configured, inv,
                 recentTranscriptions, saveCalls, copyCalls, invoked,
                 currentTranscription, keyCycles>>
  /\ UNCHANGED <<isTranscribing, added>>
  /\ UNCHANGED <<clientVars, storeVars, pageVars>>

CycleNext ==
  \/ CoordNext
  \/ SetIsRecording

\* the coordinator over several recording cycles
CycleSpec == Init /\ [][CycleNext]_vars

\* ------------------------------------------------------------------------
\* The app reducer through the hook's dispatching functions
\* ------------------------------------------------------------------------
\* number of ADD_RECENT_TRANSCRIPTION actions one behaviour dispatches
MaxAdds == 11

\* addRecentTranscription(transcription): reducer case ADD_RECENT_TRANSCRIPTION;
\* the record is the next row of the backend
AddRecentTranscription(text) ==
  /\ mounted
  /\ added < MaxAdds
  /\ added' = added + 1
  /\ recentTranscriptions' =
       AddRecent(recentTranscriptions,
                 [id |-> added', text |-> text, audio_duration |-> 1, language |-> Undefined])
  /\ UNCHANGED <<mounted, processingRef, settings, electron, configured, inv,
                 saveCalls, copyCalls, invoked, currentTranscription, cycle, keyCycles>>
  /\ UNCHANGED <<isRecording, isTranscribing>>
  /\ UNCHANGED <<clientVars, storeVars, pageVars>>

\* setIsTranscribing(b): reducer case SET_IS_TRANSCRIBING
SetIsTranscribing(b) ==
  /\ mounted
  /\ isTranscribing # b
  /\ isTranscribing' = b
  /\ UNCHANGED <<isRecording, added>>
  /\ UNCHANGED <<clientVars, coordVars, storeVars, pageVars>>

ReducerNext ==
  \/ \E e \in BOOLEAN, c \in BOOLEAN : UseTranscriptionState(e, c)
  \/ \E text \in ShownTexts : AddRecentTranscription(text)
  \/ \E text \in ShownTexts : SetCurrentTranscription(text)
  \/ ClearCurrentTranscription
  \/ SetIsRecording
  \/ \E b \in BOOLEAN : SetIsTranscribing(b)

\* the app state under the actions the hook dispatches
ReducerSpec == Init /\ [][ReducerNext]_vars

\* ------------------------------------------------------------------------
\* Keyboard shortcuts (useKeyboardShortcuts.ts, keyboardShortcuts.ts)
\* ------------------------------------------------------------------------
\* number of keydown events one behaviour dispatches
MaxKeys == 1

\* String.prototype.toLowerCase over the part names the model uses
ToLowerCase(str) ==
  CASE str = "Ctrl" -> "ctrl" [] str = "Control" -> "control"
    [] str = "Shift" -> "shift" [] str = "Alt" -> "alt" [] str = "Meta" -> "meta"
    [] str = "R" -> "r" [] str = "C" -> "c" [] str = "S" -> "s"
    [] OTHER -> str

\* String.prototype.toUpperCase over the keys the model uses
ToUpperCase(str) ==
  CASE str = "r" -> "R" [] str = "c" -> "C" [] str = "s" -> "S" [] str = "x" -> "X"
    [] str = "Control" -> "CONTROL"
    [] OTHER -> str

NoParsed == [ctrl |-> FALSE, shift |-> FALSE, alt |-> FALSE, meta |-> FALSE, key |-> ""]

RECURSIVE ParseParts(_, _)
\* the loop of parseShortcut over the parts
ParseParts(parts, parsed) ==
  IF parts = <<>> THEN parsed
  ELSE LET lower == ToLowerCase(Head(parts))
           next == IF lower \in {"ctrl", "control"} THEN [parsed EXCEPT !.ctrl = TRUE]
                   ELSE IF lower = "shift" THEN [parsed EXCEPT !.shift = TRUE]
                   ELSE IF lower \in {"alt", "option"} THEN [parsed EXCEPT !.alt = TRUE]
                   ELSE IF lower \in {"meta", "cmd", "command"} THEN [parsed EXCEPT !.meta = TRUE]
                   ELSE [parsed EXCEPT !.key = ToUpperCase(Head(parts))]
       IN ParseParts(Tail(parts), next)

\* parseShortcut(shortcutStr); a result without key stands for null
ParseShortcut(parts) == ParseParts(parts, NoParsed)

\* matchesShortcut(event, shortcutStr)
MatchesShortcut(event, parts) ==
  LET parsed == ParseShortcut(parts)
  IN /\ parsed.key # ""
     /\ (IF parsed.ctrl THEN event.ctrlKey ELSE ~event.ctrlKey)
     /\ parsed.shift = event.shiftKey
     /\ parsed.alt = event.altKey
     /\ (IF parsed.meta THEN event.metaKey ELSE ~event.metaKey)
     /\ parsed.key = ToUpperCase(event.key)

\* one run of handleKeyDown on event
HandleKeyDown(event, env) ==
  LET isModifierOnly == event.key \in {"Control", "Shift", "Alt", "Meta"}
      isInputFocused == event.target \in {"INPUT", "TEXTAREA"}
      currentText == IF env.textFromCallback # "" THEN env.textFromCallback
                     ELSE env.textFromDOM
  IN IF isModifierOnly THEN Quiet
     ELSE IF isInputFocused /\ event.key # "Escape" THEN Quiet
     ELSE IF MatchesShortcut(event, DefaultShortcuts.startStopRecording)
       THEN [Quiet EXCEPT !.prevented = TRUE, !.stopped = TRUE,
                          !.startStopRecording =
                             IF "startStopRecording" \in env.callbacks THEN 1 ELSE 0]
     ELSE IF MatchesShortcut(event, DefaultShortcuts.copyText)
       THEN [Quiet EXCEPT !.prevented = TRUE,
                          !.copyText =
                             IF currentText # "" /\ "copyText" \in env.callbacks
                               THEN 1 ELSE 0]
     ELSE IF MatchesShortcut(event, DefaultShortcuts.saveTranscription)
       THEN [Quiet EXCEPT !.prevented = TRUE,
                          !.saveTranscription =
                             IF currentText # "" /\ "saveTranscription" \in env.callbacks
                               THEN 1 ELSE 0]
     ELSE Quiet

\* a keydown event is dispatched: the capture listener of window runs, then,
\* unless the propagation was stopped, the capture listener of document
KeyDown(event, env) ==
  /\ keysDown < MaxKeys
  /\ keysDown' = keysDown + 1
  /\ \E onWindow \in {HandleKeyDown(event, env)} :
     \E onDocument \in {IF onWindow.stopped THEN Quiet ELSE HandleKeyDown(event, env)} :
        lastKey' =
          [event |-> event, env |-> env,
           listeners |-> IF onWindow.stopped THEN 1 ELSE 2,
           did |-> [startStopRecording |->
                      onWindow.startStopRecording + onDocument.startStopRecording,
                    copyText |-> onWindow.copyText + onDocument.copyText,
                    saveTranscription |->
                      onWindow.saveTranscription + onDocument.saveTranscription,
                    stopped |-> onWindow.stopped \/ onDocument.stopped,
                    prevented |-> onWindow.prevented \/ onDocument.prevented]]
  /\ UNCHANGED <<clientVars, coordVars, storeVars, flagVars, historyVars, recorderVars>>

KeyNext == \E event \in KeyEvents, env \in KeyEnvs : KeyDown(event, env)

KeySpec == Init /\ [][KeyNext]_vars

\* ------------------------------------------------------------------------
\* The storage service
\* ------------------------------------------------------------------------
\* number of storage operations one behaviour calls
MaxOps == 3

\* the search strings
Queries == {<<>>, <<"H">>, <<"k">>}

\* variant: the placeholder URL counts as configured
IsSupabaseConfigured_NoPlaceholderTest(url, key) == url # "" /\ key # ""

\* !!(supabaseUrl && supabaseAnonKey && supabaseUrl !== 'https://placeholder.supabase.co')
IsSupabaseConfigured(url, key) == url # "" /\ key # "" /\ url # PlaceholderUrl

\* lower case of a character, over the letters the model uses
Lower(ch) == CASE ch = "H" -> "h" [] ch = "K" -> "k" [] OTHER -> ch

\* text ILIKE '%query%': query occurs in text, letter case ignored
ILike(text, query) ==
  \E i \in 0..(Len(text) - Len(query)) :
    \A j \in 1..Len(query) : Lower(text[i + j]) = Lower(query[j])

RECURSIVE Reverse(_)
\* .order('created_at', { ascending: false }) of rows kept oldest first
Reverse(seq) ==
  IF seq = <<>> THEN <<>> ELSE Append(Reverse(Tail(seq)), Head(seq))

\* supabaseClient.ts is evaluated with the environment of the build
SupabaseClient(url, key) ==
  /\ ~loaded
  /\ loaded' = TRUE
  /\ supabaseUrl' = url
  /\ supabaseAnonKey' = key
  /\ UNCHANGED <<table, nextId, backendRequests, op, opsMade>>
  /\ UNCHANGED <<clientVars, coordVars, uiVars>>

\* the common head of the five operations: return empty at once when the
\* storage is not configured, otherwise send the request and await it
Begin(name, arg, empty) ==
  /\ loaded
  /\ op.pc # "awaiting"
  /\ opsMade < MaxOps
  /\ opsMade' = opsMade + 1
  /\ IF ~IsSupabaseConfigured(supabaseUrl, supabaseAnonKey)
       THEN /\ op' = [name |-> name, pc |-> "returned", arg |-> arg, result |-> empty]
            /\ UNCHANGED backendRequests
       ELSE /\ op' = [name |-> name, pc |-> "awaiting", arg |-> arg, result |-> NoOpResult]
            /\ backendRequests' = backendRequests + 1
  /\ UNCHANGED <<loaded, supabaseUrl, supabaseAnonKey, table, nextId>>
  /\ UNCHANGED <<clientVars, coordVars, uiVars>>

SaveTranscription(text, audioDuration, language) ==
  Begin("save", [NoArg EXCEPT !.text = text, !.audioDuration = audioDuration,
                              !.language = language], NullResult)

GetTranscriptions == Begin("list", NoArg, RowsResult(<<>>))

DeleteTranscription(id) == Begin("delete", [NoArg EXCEPT !.id = id], VoidResult)

SearchTranscriptions(query) ==
  Begin("search", [NoArg EXCEPT !.text = query], RowsResult(<<>>))

DeleteAllTranscriptions == Begin("deleteAll", NoArg, VoidResult)

\* the backend request settles: with an error, which the operation rethrows,
\* or with its data
BackendSettles(ok) ==
  /\ op.pc = "awaiting"
  /\ UNCHANGED <<loaded, supabaseUrl, supabaseAnonKey, backendRequests, opsMade>>
  /\ UNCHANGED <<clientVars, coordVars, uiVars>>
  /\ IF ~ok
       THEN /\ op' = [op EXCEPT !.pc = "thrown", !.result = ErrorResult]
            /\ UNCHANGED <<table, nextId>>
       ELSE CASE op.name = "save" ->
                   LET row == [id |-> nextId, text |-> op.arg.text,
                               audio_duration |-> op.arg.audioDuration,
                               language |-> op.arg.language]
                   IN /\ table' = Append(table, row)
                      /\ nextId' = nextId + 1
                      /\ op' = [op EXCEPT !.pc = "returned", !.result = RowResult(row)]
              [] op.name = "list" ->
                   /\ op' = [op EXCEPT !.pc = "returned", !.result = RowsResult(Reverse(table))]
                   /\ UNCHANGED <<table, nextId>>
              [] op.name = "search" ->
                   LET Match(row) == ILike(row.text, op.arg.text)
                   IN /\ op' = [op EXCEPT !.pc = "returned",
                                           !.result = RowsResult(Reverse(SelectSeq(table, Match)))]
                      /\ UNCHANGED <<table, nextId>>
              [] op.name = "delete" ->
                   LET Keep(row) == row.id # op.arg.id
                   IN /\ table' = SelectSeq(table, Keep)
                      /\ op' = [op EXCEPT !.pc = "returned", !.result = VoidResult]
                      /\ UNCHANGED nextId
              [] OTHER ->
                   /\ table' = <<>>
                   /\ op' = [op EXCEPT !.pc = "returned", !.result = VoidResult]
                   /\ UNCHANGED nextId

StorageNext ==
  \/ \E url \in EnvUrls, key \in EnvKeys : SupabaseClient(url, key)
  \/ \E t \in Triples : SaveTranscription(t[1], t[2], t[3])
  \/ GetTranscriptions
  \/ \E id \in 1..MaxOps : DeleteTranscription(id)
  \/ \E query \in Queries : SearchTranscriptions(query)
  \/ DeleteAllTranscriptions
  \/ \E ok \in BOOLEAN : BackendSettles(ok)

StorageSpec == Init /\ [][StorageNext]_vars

\* ------------------------------------------------------------------------
\* The history page (HistoryPage)
\* ------------------------------------------------------------------------
\* number of list and search requests one behaviour issues
MaxRequests == 3

RECURSIVE TrimStart(_)
TrimStart(str) ==
  IF str # <<>> /\ Head(str) = " " THEN TrimStart(Tail(str)) ELSE str

RECURSIVE TrimEnd(_)
TrimEnd(str) ==
  IF str # <<>> /\ str[Len(str)] = " " THEN TrimEnd(SubSeq(str, 1, Len(str) - 1)) ELSE str

\* String.prototype.trim
Trim(str) == TrimEnd(TrimStart(str))

\* the data getTranscriptions or searchTranscriptions(query) resolves with
ResultOf(req) ==
  LET Match(row) == ILike(row.text, req.query)
  IN IF req.kind = "list" THEN Reverse(HistoryTable)
     ELSE Reverse(SelectSeq(HistoryTable, Match))

\* a request is sent and the activation is suspended at its await, after
\* setIsLoading(true)
Issue(kind, query) ==
  /\ issued < MaxRequests
  /\ issued' = issued + 1
  /\ isLoading' = TRUE
  /\ LET req == [id |-> issued', kind |-> kind, query |-> query, outcome |-> "pending"]
     IN /\ inflight' = inflight \cup {req}
        /\ latest' = req

\* loadTranscriptions() up to `await getTranscriptions()`
LoadTranscriptions == Issue("list", <<>>)

\* the page mounts: useEffect(() => { loadTranscriptions() }, [])
HistoryPage ==
  /\ ~pageMounted
  /\ pageMounted' = TRUE
  /\ LoadTranscriptions
  /\ UNCHANGED <<transcriptions, searchQuery>>
  /\ UNCHANGED <<clientVars, coordVars, storeVars, flagVars, keyVars, recorderVars>>

\* onChange of the search field
SetSearchQuery(query) ==
  /\ pageMounted
  /\ searchQuery # query
  /\ searchQuery' = query
  /\ UNCHANGED <<pageMounted, transcriptions, isLoading, inflight, issued, latest>>
  /\ UNCHANGED <<clientVars, coordVars, storeVars, flagVars, keyVars, recorderVars>>

\* handleSearch(), called by the Enter key in the search field at any time or
\* by the Search button, which is disabled while isLoading
HandleSearch(byButton) ==
  /\ pageMounted
  /\ byButton => ~isLoading
  /\ IF Trim(searchQuery) = <<>>
       THEN LoadTranscriptions
       ELSE Issue("search", searchQuery)
  /\ UNCHANGED <<pageMounted, transcriptions, searchQuery>>
  /\ UNCHANGED <<clientVars, coordVars, storeVars, flagVars, keyVars, recorderVars>>

\* a request settles: its activation resumes, shows the data if there is any,
\* and runs `finally { setIsLoading(false) }`
RequestSettles(req, ok) ==
  /\ req \in inflight
  /\ inflight' = inflight \ {req}
  /\ transcriptions' = IF ok THEN ResultOf(req) ELSE transcriptions
  /\ isLoading' = FALSE
  /\ latest' = IF latest.id = req.id
                 THEN [latest EXCEPT !.outcome = IF ok THEN "ok" ELSE "error"]
                 ELSE latest
  /\ UNCHANGED <<pageMounted, searchQuery, issued>>
  /\ UNCHANGED <<clientVars, coordVars, storeVars, flagVars, keyVars, recorderVars>>

HistoryNext ==
  \/ HistoryPage
  \/ \E query \in SearchTexts : SetSearchQuery(query)
  \/ \E byButton \in BOOLEAN : HandleSearch(byButton)
  \/ \E req \in inflight, ok \in BOOLEAN : RequestSettles(req, ok)

HistorySpec == Init /\ [][HistoryNext]_vars

\* ------------------------------------------------------------------------
\* The audio recorder (useAudioRecorder)
\* ------------------------------------------------------------------------
\* number of startRecording calls one behaviour makes
MaxStarts == 3

\* how the microphone request and the format test of an activation end
MicOutcomes == {"stream", "denied", "unsupported"}

\* startRecording() up to `await navigator.mediaDevices.getUserMedia(...)`;
\* the activation, its stream, its recorder and its timer share one number
StartRecording ==
  /\ starts < MaxStarts
  /\ starts' = starts + 1
  /\ pendingStarts' = pendingStarts \cup {starts'}
  /\ lastRecorderOp' = "startRecording"
  /\ UNCHANGED <<recorderIsRecording, mediaRecorderRef, timerRef, streamRef,
                 activeRecorders, activeTimers, activeStreams>>
  /\ UNCHANGED <<clientVars, coordVars, storeVars, flagVars, keyVars, historyVars>>

\* the catch block of startRecording: setIsRecording(false) and the tracks of
\* streamRef.current are stopped, which ends the recorder fed by that stream
CatchStart(current, streams) ==
  /\ recorderIsRecording' = FALSE
  /\ streamRef' = 0
  /\ activeStreams' = streams \ {current}
  /\ activeRecorders' = activeRecorders \ {current}
  /\ UNCHANGED <<mediaRecorderRef, timerRef, activeTimers>>

\* getUserMedia settles for activation a and the rest of startRecording runs
MicrophoneSettles(a, outcome) ==
  /\ a \in pendingStarts
  /\ pendingStarts' = pendingStarts \ {a}
  /\ lastRecorderOp' = "startRecording"
  /\ UNCHANGED starts
  /\ UNCHANGED <<clientVars, coordVars, storeVars, flagVars, keyVars, historyVars>>
  /\ CASE outcome = "stream" ->
            /\ streamRef' = a
            /\ activeStreams' = activeStreams \cup {a}
            /\ mediaRecorderRef' = a
            /\ activeRecorders' = activeRecorders \cup {a}
            /\ recorderIsRecording' = TRUE
            /\ timerRef' = a
            /\ activeTimers' = activeTimers \cup {a}
       [] outcome = "unsupported" -> CatchStart(a, activeStreams \cup {a})
       [] OTHER -> CatchStart(streamRef, activeStreams)

\* stopRecording(), with the onstop handler of the recorder it stops
StopRecording ==
  /\ mediaRecorderRef # 0
  /\ recorderIsRecording
  /\ mediaRecorderRef \in activeRecorders
  /\ activeRecorders' = activeRecorders \ {mediaRecorderRef}
  /\ recorderIsRecording' = FALSE
  /\ activeTimers' = activeTimers \ {timerRef}
  /\ timerRef' = 0
  /\ activeStreams' = activeStreams \ {streamRef}
  /\ streamRef' = 0
  /\ lastRecorderOp' = "stopRecording"
  /\ UNCHANGED <<mediaRecorderRef, pendingStarts, starts>>
  /\ UNCHANGED <<clientVars, coordVars, storeVars, flagVars, keyVars, historyVars>>

RecorderNext ==
  \/ StartRecording
  \/ \E a \in pendingStarts, outcome \in MicOutcomes : MicrophoneSettles(a, outcome)
  \/ StopRecording

RecorderSpec == Init /\ [][RecorderNext]_vars

\* ------------------------------------------------------------------------
\* Properties of the client
\* ------------------------------------------------------------------------
Is429(r) == r.type = "http" /\ r.status = 429

IsTransport(r) == r.type = "noresp"

\* an HTTP error response that the catch block does not end the call on
IsRetryableHttp(r) == r.type = "http" /\ r.status \notin {200, 400, 401, 413}

AllOf(seq, P(_)) == \A i \in 1..Len(seq) : P(seq[i])

\* C1: a call with an empty API key issues no network request and fails with
\* the code 'INVALID_API_KEY'.
C1_EmptyKeyInvalidCredential ==
  \A c \in Callers :
    (call[c].pc = "done" /\ call[c].apiKey = "") =>
      /\ call[c].netCalls = 0
      /\ call[c].result.state = "thrown"
      /\ call[c].result.code = "INVALID_API_KEY"

\* C3: with a single caller, dispatch times never decrease and two
\* consecutive dispatches are at least MIN_REQUEST_INTERVAL apart.
C3_DispatchSpacing ==
  prevDispatch # NoTime =>
    /\ lastDispatch >= prevDispatch
    /\ lastDispatch - prevDispatch >= 200

\* C4: an attempt that receives 401 ends the call at once with
\* INVALID_API_KEY / 401 and no further attempt; on the first attempt the
\* attempt count stays 1.
C4_Unauthorized ==
  \A c \in Callers :
    (call[c].lastResp.type = "http" /\ call[c].lastResp.status = 401) =>
      /\ call[c].pc = "done"
      /\ call[c].result = Failure("INVALID_API_KEY", 401)
      /\ call[c].attempt = call[c].netCalls
      /\ Len(call[c].resps) = call[c].netCalls
      /\ (Len(call[c].resps) = 1 => call[c].attempt = 1 /\ call[c].netCalls = 1)

C4_Witness ==
  \E c \in Callers :
    /\ call[c].lastResp.type = "http" /\ call[c].lastResp.status = 401
    /\ call[c].netCalls = 1
    /\ call[c].pc = "done"

\* C5: one call performs at most three network attempts.
C5_AtMostThreeAttempts ==
  \A c \in Callers : call[c].netCalls <= 3 /\ call[c].attempt <= 3

C5_Witness ==
  \E c \in Callers : call[c].netCalls = 3 /\ call[c].pc = "done"

\* C6 as stated: three transient failures (429 or no response) end the call
\* with MAX_RETRIES_EXCEEDED.
C6_TransientEndsExhausted ==
  \A c \in Callers :
    (/\ call[c].pc = "done"
     /\ Len(call[c].resps) = 3
     /\ AllOf(call[c].resps, LAMBDA r : Is429(r) \/ IsTransport(r))) =>
      call[c].result.code = "MAX_RETRIES_EXCEEDED"

\* C6 amended: three transient failures end the call with a typed error:
\* MAX_RETRIES_EXCEEDED (status 429) when the last attempt received 429,
\* NETWORK_ERROR when the last attempt received no response.
C6_TransientEndsTyped ==
  \A c \in Callers :
    (/\ call[c].pc = "done"
     /\ Len(call[c].resps) = 3
     /\ AllOf(call[c].resps, LAMBDA r : Is429(r) \/ IsTransport(r))) =>
      /\ call[c].result.state = "thrown"
      /\ Is429(call[c].resps[3]) => call[c].result = Failure("MAX_RETRIES_EXCEEDED", 429)
      /\ IsTransport(call[c].resps[3]) => call[c].result = Failure("NETWORK_ERROR", NoStatus)

C6_Witness ==
  \E c \in Callers :
    /\ call[c].pc = "done"
    /\ Len(call[c].resps) = 3
    /\ IsTransport(call[c].resps[1]) /\ Is429(call[c].resps[2]) /\ Is429(call[c].resps[3])
    /\ call[c].result.code = "MAX_RETRIES_EXCEEDED"

\* C7: three HTTP error responses on the retryable path end the call with
\* MAX_RETRIES_EXCEEDED carrying the status of the last response.
C7_ExhaustedCarriesStatus ==
  \A c \in Callers :
    (/\ call[c].pc = "done"
     /\ Len(call[c].resps) = 3
     /\ AllOf(call[c].resps, IsRetryableHttp)) =>
      call[c].result = Failure("MAX_RETRIES_EXCEEDED", call[c].resps[3].status)

C7_Witness ==
  \E c \in Callers :
    /\ call[c].pc = "done"
    /\ Len(call[c].resps) = 3
    /\ \A i \in 1..3 : call[c].resps[i].type = "http" /\ call[c].resps[i].status = 500
    /\ call[c].result.status = 500

\* C8: an attempt without a response is retried while attempts remain; on the
\* third attempt the call ends with NETWORK_ERROR.
C8_TransportFailure ==
  \A c \in Callers :
    IsTransport(call[c].lastResp) =>
      /\ call[c].attempt < 3 => call[c].pc \in {"backoff", "inflight"}
      /\ call[c].attempt < 3 /\ call[c].pc = "inflight" => call[c].netCalls = call[c].attempt + 1
      /\ call[c].attempt >= 3 =>
           call[c].pc = "done" /\ call[c].result = Failure("NETWORK_ERROR", NoStatus)

C8_Witness ==
  \E c \in Callers :
    /\ IsTransport(call[c].lastResp)
    /\ call[c].attempt = 3
    /\ call[c].pc = "done"
    /\ IsTransport(call[c].resps[1])

\* C9: an attempt that receives 400 or 413 ends the call at once with
\* FILE_ERROR carrying that status, on whichever attempt.
C9_PayloadRejected ==
  \A c \in Callers :
    (call[c].lastResp.type = "http" /\ call[c].lastResp.status \in {400, 413}) =>
      /\ call[c].pc = "done"
      /\ call[c].result = Failure("FILE_ERROR", call[c].lastResp.status)
      /\ call[c].netCalls = Len(call[c].resps)

C9_Witness ==
  \E c \in Callers :
    /\ call[c].lastResp.type = "http" /\ call[c].lastResp.status = 400
    /\ Len(call[c].resps) = 2
    /\ call[c].pc = "done"

\* C10: after a 429 with retry-after N on an attempt that is not the last, the
\* next attempt is dispatched no earlier than N*1000 ms after that response;
\* 429 with retry-after 2 then 200 gives two network calls at least 2000 ms
\* apart and a returned result.
C10_RetryAfterHonoured ==
  \A c \in Callers :
    /\ \A n \in 0..9 :
         (/\ Is429(call[c].lastResp)
          /\ call[c].lastResp.retryAfter = <<DigitChars[n + 1]>>
          /\ call[c].attempt < 3) =>
            /\ call[c].pc \in {"backoff", "inflight"}
            /\ call[c].pc = "inflight" => call[c].sentAt >= call[c].respTime + n * 1000
    /\ (/\ call[c].pc = "done"
         /\ Len(call[c].resps) = 2
         /\ Is429(call[c].resps[1]) /\ call[c].resps[1].retryAfter = <<"2">>
         /\ call[c].resps[2].status = 200) =>
           /\ call[c].netCalls = 2
           /\ call[c].sentAt - call[c].prevSentAt >= 2000
           /\ call[c].result.state = "returned"

C10_Witness ==
  \E c \in Callers :
    /\ call[c].pc = "done"
    /\ Len(call[c].resps) = 2
    /\ Is429(call[c].resps[1]) /\ call[c].resps[1].retryAfter = <<"2">>
    /\ call[c].resps[2].status = 200
    /\ call[c].result.state = "returned"

\* C11: after attempt k (1 or 2) fails with a transport failure or with a 429
\* without retry-after header, the client sleeps RETRY_DELAY * k before it
\* dispatches attempt k + 1.
C11_LinearBackoff ==
  \A c \in Callers :
    (/\ call[c].attempt \in {1, 2}
     /\ \/ IsTransport(call[c].lastResp)
        \/ Is429(call[c].lastResp) /\ call[c].lastResp.retryAfter = NoHeader) =>
      /\ call[c].pc \in {"backoff", "inflight"}
      /\ call[c].lastSleep = 1000 * call[c].attempt
      /\ call[c].pc = "backoff" => call[c].wake = call[c].respTime + 1000 * call[c].attempt
      /\ call[c].pc = "inflight" =>
           /\ call[c].netCalls = call[c].attempt + 1
           /\ call[c].sentAt >= call[c].respTime + 1000 * call[c].attempt

C11_Witness ==
  \E c \in Callers :
    /\ call[c].attempt = 2
    /\ IsTransport(call[c].lastResp)
    /\ Is429(call[c].resps[1]) /\ call[c].resps[1].retryAfter = NoHeader
    /\ call[c].pc = "inflight"
    /\ call[c].sentAt = call[c].respTime + 2000

\* C12: the first attempt that receives a 2xx ends the call: the result is the
\* text and the language of that response body and no further attempt is
\* dispatched, whatever the earlier attempts failed with.
C12_SuccessEndsCall ==
  \A c \in Callers :
    (call[c].lastResp.type = "http" /\ call[c].lastResp.status = 200) =>
      /\ call[c].pc = "done"
      /\ call[c].result.state = "returned"
      /\ call[c].lastBody \in Bodies
      /\ call[c].result.text = call[c].lastBody.text
      /\ call[c].result.language = call[c].lastBody.language
      /\ call[c].netCalls = Len(call[c].resps)
      /\ \A i \in 1..(Len(call[c].resps) - 1) : call[c].resps[i].status # 200

C12_Witness ==
  \E c \in Callers :
    /\ call[c].pc = "done"
    /\ Len(call[c].resps) = 3
    /\ IsTransport(call[c].resps[1])
    /\ call[c].resps[2].status = 500
    /\ call[c].resps[3].status = 200
    /\ call[c].result.text = "hello world" /\ call[c].result.language = "en"

\* C16: lastRequestTime is written immediately before every dispatch attempt,
\* retries included: while an attempt is in flight lastRequestTime is the
\* time that attempt was sent.
C16_StampBeforeEveryDispatch ==
  \A c \in Callers :
    call[c].pc = "inflight" => lastRequestTime = call[c].sentAt

\* C17 as stated: a failure with neither response nor request ends the call
\* with UNKNOWN_ERROR.
C17_OtherErrorEndsUnknown ==
  \A c \in Callers :
    call[c].lastResp.type = "other" =>
      /\ call[c].pc = "done"
      /\ call[c].result = Failure("UNKNOWN_ERROR", NoStatus)

\* C17 amended: a failure with neither response nor request is retried at once
\* while attempts remain; on the third attempt it ends the call with
\* MAX_RETRIES_EXCEEDED without a status; no call ends with UNKNOWN_ERROR.
C17_OtherErrorRetriedThenExhausted ==
  \A c \in Callers :
    /\ (call[c].lastResp.type = "other" /\ call[c].attempt < MAX_RETRIES) =>
         /\ call[c].pc = "inflight"
         /\ call[c].sentAt = call[c].respTime
         /\ call[c].netCalls = call[c].attempt + 1
    /\ (call[c].lastResp.type = "other" /\ call[c].attempt >= MAX_RETRIES) =>
         /\ call[c].pc = "done"
         /\ call[c].netCalls = MAX_RETRIES
         /\ call[c].result = Failure("MAX_RETRIES_EXCEEDED", NoStatus)
    /\ call[c].result # Failure("UNKNOWN_ERROR", NoStatus)

\* three attempts failed with neither response nor request
C17_Witness ==
  \E c \in Callers :
    /\ call[c].pc = "done"
    /\ Len(call[c].resps) = 3
    /\ \A k \in 1..3 : call[c].resps[k].type = "other"
    /\ call[c].result = Failure("MAX_RETRIES_EXCEEDED", NoStatus)

\* C18: pacing is not mutual exclusion.  A call waits for the pacing interval
\* only, never for another call: it dispatches its pacing delay (at most
\* MIN_REQUEST_INTERVAL) after it was entered, whatever the other activation
\* is doing, and it writes lastRequestTime at that moment.
C18_PacingIsNotMutex ==
  \A c \in AllCallers :
    /\ call[c].pc = "pacing" =>
         /\ call[c].wake = call[c].startedAt + call[c].pacingDelay
         /\ call[c].pacingDelay <= MIN_REQUEST_INTERVAL
    /\ call[c].netCalls >= 1 =>
         /\ call[c].firstSentAt = call[c].startedAt + call[c].pacingDelay
         /\ call[c].pacingDelay <= MIN_REQUEST_INTERVAL
         /\ call[c].wroteAt = call[c].firstSentAt
         /\ lastRequestTime >= call[c].wroteAt

\* two calls are in flight at once: the second was entered and dispatched
\* while the first awaited its response, and each wrote lastRequestTime
C18_Witness ==
  \E c, d \in AllCallers :
    /\ c # d
    /\ call[c].pc = "inflight" /\ call[d].pc = "inflight"
    /\ call[c].firstSentAt < call[d].startedAt
    /\ call[d].startedAt < call[c].wake
    /\ call[c].wroteAt = call[c].firstSentAt
    /\ call[d].wroteAt = call[d].firstSentAt
    /\ lastRequestTime = call[d].firstSentAt

\* C19: when the storage is not configured (a variable of the environment is
\* missing or the URL is the placeholder) no operation sends a backend
\* request and each resolves with its empty value: save with null, list and
\* search with [], delete and deleteAll with nothing.
C19_UnconfiguredStorageIsInert ==
  (/\ loaded
   /\ \/ supabaseUrl = ""
      \/ supabaseAnonKey = ""
      \/ supabaseUrl = PlaceholderUrl) =>
    /\ backendRequests = 0
    /\ table = <<>>
    /\ op.pc \in {"idle", "returned"}
    /\ op.name = "save" => op.result = NullResult
    /\ op.name \in {"list", "search"} => op.result = RowsResult(<<>>)
    /\ op.name \in {"delete", "deleteAll"} => op.result = VoidResult

\* with the placeholder URL and a key present, a save was answered with null
\* after other operations
C19_Witness ==
  /\ loaded
  /\ supabaseUrl = PlaceholderUrl
  /\ supabaseAnonKey # ""
  /\ opsMade >= 2
  /\ op.name = "save"
  /\ op.pc = "returned"
  /\ op.result = NullResult
  /\ backendRequests = 0

\* C22: a call with an empty API key ends in the step that enters it: it
\* throws without a pacing delay and without a dispatch, and it leaves
\* lastRequestTime as it was, so the pacing of the next call is computed from
\* the same time as before.
C22_EmptyKeyLeavesPacingAlone ==
  [][\A c \in Callers :
       (call'[c] # call[c] /\ call'[c].apiKey = "") =>
         /\ call'[c].pc = "done"
         /\ call'[c].result.state = "thrown"
         /\ call'[c].startedAt = now'
         /\ call'[c].netCalls = 0
         /\ call'[c].pacingDelay = 0
         /\ call'[c].wroteAt = NoTime
         /\ lastRequestTime' = lastRequestTime
         /\ lastDispatch' = lastDispatch]_vars

\* an empty-key call was rejected less than MIN_REQUEST_INTERVAL after the
\* dispatch of the valid call before it
C22_Witness ==
  \E c \in Callers :
    /\ callsMade = 2
    /\ call[c].pc = "done"
    /\ call[c].apiKey = ""
    /\ lastRequestTime = lastDispatch
    /\ lastRequestTime >= Epoch
    /\ now - lastRequestTime < MIN_REQUEST_INTERVAL

\* C23: once the third attempt has failed the call is over: it never sleeps
\* after the last attempt, so there are at most two sleeps, and a 429 on the
\* third attempt, with or without retry-after, ends the call at the time of
\* the response with MAX_RETRIES_EXCEEDED and status 429.
C23_NoSleepAfterLastAttempt ==
  \A c \in Callers :
    /\ call[c].attempt >= MAX_RETRIES =>
         /\ call[c].pc = "done"
         /\ call[c].wake = NoTime
         /\ call[c].netCalls = MAX_RETRIES
         /\ call[c].result.state = "thrown"
    /\ call[c].pc = "backoff" => call[c].attempt < MAX_RETRIES
    /\ call[c].sleeps <= 2
    /\ call[c].sleeps <= call[c].attempt
    /\ (call[c].attempt >= MAX_RETRIES /\ Is429(call[c].lastResp)) =>
         call[c].result = Failure("MAX_RETRIES_EXCEEDED", 429)

\* the third attempt was answered with 429 and retry-after 2 after two sleeps
C23_Witness ==
  \E c \in Callers :
    /\ call[c].pc = "done"
    /\ call[c].attempt = 3
    /\ call[c].sleeps = 2
    /\ Is429(call[c].lastResp)
    /\ call[c].lastResp.retryAfter = <<"2">>
    /\ call[c].result = Failure("MAX_RETRIES_EXCEEDED", 429)

\* C24: while attempts remain, an attempt that fails with an error response
\* other than 401, 429, 400 and 413, or with an error that has neither
\* response nor request, is followed at once by the next dispatch: no backoff
\* sleep and no new pacing wait or write of lastRequestTime.
C24_ImmediateRetry ==
  \A c \in Callers :
    (/\ call[c].attempt < MAX_RETRIES
     /\ \/ call[c].lastResp.type = "other"
        \/ /\ call[c].lastResp.type = "http"
           /\ call[c].lastResp.status \notin {200, 401, 429, 400, 413}) =>
      /\ call[c].pc = "inflight"
      /\ call[c].sentAt = call[c].respTime
      /\ call[c].netCalls = call[c].attempt + 1
      /\ lastRequestTime = call[c].wroteAt
      /\ lastRequestTime = call[c].firstSentAt

\* a 500 and then an error without response or request were each retried at
\* once
C24_Witness ==
  \E c \in Callers :
    /\ call[c].pc = "inflight"
    /\ Len(call[c].resps) = 2
    /\ call[c].resps[1].status = 500
    /\ call[c].resps[2].type = "other"
    /\ call[c].sleeps = 0
    /\ call[c].sentAt = call[c].respTime

\* C26: every call ends, returned or thrown, and along the way it makes at
\* most three attempts and takes at most two retry delays.
C26_CallTerminates ==
  /\ [](\A c \in Callers :
          /\ call[c].netCalls <= 3
          /\ call[c].attempt <= 3
          /\ call[c].sleeps <= 2)
  /\ \A c \in Callers :
       (call[c].pc \in {"pacing", "inflight", "backoff"}) ~>
         (call[c].pc = "done" /\ call[c].result.state \in {"returned", "thrown"})

\* a call ended after three attempts and two delays
C26_Witness ==
  \E c \in Callers :
    /\ call[c].pc = "done"
    /\ call[c].netCalls = 3
    /\ call[c].sleeps = 2
    /\ call[c].pacingDelay > 0
    /\ call[c].result.state = "returned"

\* ------------------------------------------------------------------------
\* Properties of the result coordinator
\* ------------------------------------------------------------------------
TripleOf(rec) == <<rec.text, rec.audioDuration, rec.language>>

C14_CopyOnceEveryRuntime ==
  \A i \in Slots :
    (inv[i].pc = "resolved" /\ ~inv[i].skipped /\ inv[i].autoCopy) => inv[i].copies = 1

\* C14 amended: an activation that passed the duplicate check with auto-copy
\* enabled calls copy exactly once in the Electron runtime and not at all in a
\* browser runtime; without auto-copy it never calls copy; a copy that fails
\* still resolves the call.
C14_CopyOnceInElectron ==
  \A i \in Slots :
    /\ (inv[i].pc = "resolved" /\ ~inv[i].skipped) =>
         inv[i].copies = IF inv[i].autoCopy /\ electron THEN 1 ELSE 0
    /\ inv[i].pc = "copying" => inv[i].copies = 1 /\ inv[i].autoCopy /\ electron
    /\ inv[i].copyResult # "none" => inv[i].pc = "resolved" /\ inv[i].copies = 1
    /\ inv[i].pc # "rejected"

\* in Electron a copy was made once, failed, and the call resolved
C14_Witness ==
  \E i \in Slots :
    /\ electron
    /\ inv[i].autoCopy
    /\ inv[i].pc = "resolved"
    /\ inv[i].copies = 1
    /\ inv[i].copyResult = "false"

\* C15: an activation is skipped as a duplicate only when its key was recorded
\* in its own recording cycle; the record does not survive into a later cycle.
C15_KeyRecordClearedPerCycle ==
  \A i \in Slots :
    inv[i].skipped =>
      <<TextKey(inv[i].text, inv[i].audioDuration, inv[i].language), inv[i].cycle>>
        \in keyCycles

\* C20: of two activations with the same key the later one is skipped: it
\* calls neither saveTranscription nor copy and resolves with null; an
\* activation suspended at save or copy has its key recorded already.
C20_SecondInvocationSkipped ==
  /\ \A i \in Slots :
       /\ inv[i].skipped =>
            /\ inv[i].pc = "resolved"
            /\ inv[i].saves = 0
            /\ inv[i].copies = 0
            /\ inv[i].ret = NoRecord
       /\ inv[i].pc \in {"saving", "copying"} =>
            TextKey(inv[i].text, inv[i].audioDuration, inv[i].language) \in processingRef
  /\ \A i, j \in Slots :
       (/\ i # j
        /\ inv[i].pc # "free" /\ inv[j].pc # "free"
        /\ TextKey(inv[i].text, inv[i].audioDuration, inv[i].language)
             = TextKey(inv[j].text, inv[j].audioDuration, inv[j].language)) =>
         inv[i].skipped \/ inv[j].skipped

\* the first activation is still suspended at its save when the second one,
\* with the same key, has resolved as a duplicate
C20_Witness ==
  \E i, j \in Slots :
    /\ inv[i].pc = "saving"
    /\ inv[j].pc = "resolved" /\ inv[j].skipped
    /\ TripleOf(inv[i]) = TripleOf(inv[j])
    /\ saveCalls[TripleOf(inv[i])] = 1

\* C21: saveTranscription is called only by an activation that saw autoSave
\* enabled and copy only by one that saw autoCopyToClipboard enabled; with the
\* setting disabled the activation never calls that collaborator.
C21_SettingsGateCollaborators ==
  \A i \in Slots :
    /\ ~inv[i].autoSave => inv[i].saves = 0 /\ inv[i].pc # "saving"
    /\ ~inv[i].autoCopy => inv[i].copies = 0 /\ inv[i].pc # "copying"
    /\ inv[i].saves <= 1 /\ inv[i].copies <= 1

\* in Electron an activation with auto-save off and auto-copy on has copied
\* without saving, and one with both off has resolved having called neither
C21_Witness ==
  \E i, j \in Slots :
    /\ electron
    /\ inv[i].pc = "resolved" /\ ~inv[i].skipped
    /\ ~inv[i].autoSave /\ inv[i].autoCopy
    /\ inv[i].saves = 0 /\ inv[i].copies = 1
    /\ inv[j].pc = "resolved" /\ ~inv[j].skipped
    /\ ~inv[j].autoSave /\ ~inv[j].autoCopy
    /\ inv[j].saves = 0 /\ inv[j].copies = 0

\* C27: the recent list never holds more than ten records and is newest
\* first; an add puts the new record at the head, keeps the nine newest of
\* the others in their order, and changes no other field of the app state.
C27_RecentListBounded ==
  /\ [](/\ Len(recentTranscriptions) <= 10
        /\ Len(recentTranscriptions) = IF added < 10 THEN added ELSE 10
        /\ \A k \in 1..(Len(recentTranscriptions) - 1) :
             recentTranscriptions[k].id > recentTranscriptions[k + 1].id)
  /\ [][added' # added =>
          /\ Head(recentTranscriptions').id = added'
          /\ \A k \in 2..Len(recentTranscriptions') :
               recentTranscriptions'[k] = recentTranscriptions[k - 1]
          /\ Len(recentTranscriptions) < 10 =>
               Len(recentTranscriptions') = Len(recentTranscriptions) + 1
          /\ currentTranscription' = currentTranscription
          /\ isRecording' = isRecording
          /\ isTranscribing' = isTranscribing]_vars

\* the eleventh add dropped the oldest record while the other fields held
\* values that are not the initial ones
C27_Witness ==
  /\ added = 11
  /\ Len(recentTranscriptions) = 10
  /\ recentTranscriptions[1].id = 11
  /\ recentTranscriptions[10].id = 2
  /\ currentTranscription # <<>>
  /\ isRecording
  /\ isTranscribing

\* C28: a keydown that matches a configured shortcut while no input field has
\* the focus invokes the callback of that shortcut exactly once (the callbacks
\* are present and there is a text to copy or save).
C28_CallbackOncePerKeydown ==
  \A name \in ShortcutNames :
    (/\ keysDown > 0
     /\ lastKey.event.target = "BODY"
     /\ lastKey.env.callbacks = ShortcutNames
     /\ lastKey.env.textFromCallback # ""
     /\ MatchesShortcut(lastKey.event, DefaultShortcuts[name])) =>
      lastKey.did[name] = 1

\* C25: an activation that saves does not call copy before its save has
\* settled, and it resolves only when its save and its copy have settled.
C25_CopyAfterSaveSettles ==
  \A i \in Slots :
    /\ inv[i].pc = "saving" => inv[i].copies = 0 /\ ~inv[i].saveSettled
    /\ (inv[i].copies >= 1 /\ inv[i].saves >= 1) => inv[i].saveSettled
    /\ inv[i].pc = "resolved" =>
         /\ inv[i].saves >= 1 => inv[i].saveSettled
         /\ inv[i].copies >= 1 => inv[i].copyResult # "none"
    /\ inv[i].pc = "copying" => inv[i].copyResult = "none"

\* with both settings enabled an activation is suspended at its copy after
\* its save resolved with a row, while another has resolved after a rejected
\* save and a copy
C25_Witness ==
  \E i, j \in Slots :
    /\ inv[i].autoSave /\ inv[i].autoCopy
    /\ inv[i].pc = "copying"
    /\ inv[i].savedTranscription # NoRecord
    /\ inv[j].autoSave /\ inv[j].autoCopy
    /\ inv[j].pc = "resolved"
    /\ inv[j].saveFailed
    /\ inv[j].copyResult = "true"

\* C29: isLoading is true while a request is in flight; and once every
\* request has settled, isLoading is false and, the request issued last
\* having brought data, the displayed list is the result of that request.
C29_LatestRequestShown ==
  /\ inflight # {} => isLoading
  /\ (pageMounted /\ inflight = {}) =>
       /\ ~isLoading
       /\ latest.outcome = "ok" => transcriptions = ResultOf(latest)

\* C30: at most one MediaRecorder is recording and at most one duration timer
\* is running at any time, and when stopRecording has just run no duration
\* timer is running.
C30_OneRecorderOneTimer ==
  /\ Cardinality(activeRecorders) <= 1
  /\ Cardinality(activeTimers) <= 1
  /\ lastRecorderOp = "stopRecording" => activeTimers = {}

====
